---- MODULE Spec2Model ----
(***************************************************************************)
(* Incident-tracking service: the create, get, list, update-status and     *)
(* health Lambda handlers, the DynamoDB adapter and the SNS adapter.       *)
(*                                                                         *)
(* Requests run concurrently.  A handler step that calls the store or the  *)
(* notification channel is one atomic action; the steps of one request     *)
(* interleave with the steps of the others.  Checks a handler makes before *)
(* its first collaborator call (preflight, method, path id, body parse,    *)
(* validation, id generation, clock read) happen in the request's first    *)
(* action.                                                                 *)
(*                                                                         *)
(* Text is a sequence of characters (" " is whitespace).  Enumerated words *)
(* (severity, status) are written as one-element sequences.  An optional   *)
(* attribute is a sequence of length 0 (absent) or 1 (present).            *)
(* Time is one clock shared by all invocations that never runs backwards.  *)
(***************************************************************************)
EXTENDS Integers, Sequences, FiniteSets, TLC

\* ---------------------------------------------------------------- bounds
MaxId == 2          \* size of the identifier space uuid4 draws from
MaxClock == 1       \* last clock reading
MaxReqs == 3        \* requests admitted past validation in one run
MaxConc == 2        \* requests served in parallel

Ids == 1..MaxId
NoId == 0
\* the n-th request admitted past validation runs in slot n
Slots == 1..MaxReqs

\* ------------------------------------------------------------ JSON values
Absent == [k |-> "absent", v |-> <<>>]
JStr(s) == [k |-> "str", v |-> s]
JNum == [k |-> "num", v |-> <<>>]
JList(l) == [k |-> "list", v |-> l]

IsStr(x) == x.k = "str"
\* list and dict values cannot be hashed: `x in {...}` raises TypeError
Hashable(x) == x.k \notin {"list", "obj"}

RECURSIVE LStrip(_)
LStrip(s) == IF s # <<>> /\ Head(s) = " " THEN LStrip(Tail(s)) ELSE s

RECURSIVE RStrip(_)
RStrip(s) ==
    IF s # <<>> /\ s[Len(s)] = " " THEN RStrip(SubSeq(s, 1, Len(s) - 1)) ELSE s

StripNothing(s) == s

\* str.strip()
Strip(s) == RStrip(LStrip(s))

\* ------------------------------------------------------- request payloads
\* A JSON object as the handlers read it: one JSON value per key.
EmptyObject ==
    [title |-> Absent, description |-> Absent, severity |-> Absent,
     reported_by |-> Absent, tags |-> Absent, status |-> Absent]

P1 ==
    [EmptyObject EXCEPT !.title = JStr(<<" ", "a", " ">>),
                        !.description = JStr(<<"d">>),
                        !.severity = JStr(<<"low">>),
                        !.reported_by = JStr(<<"r">>)]

P2 ==
    [EmptyObject EXCEPT !.title = JStr(<<"b">>),
                        !.description = JStr(<<"d", " ">>),
                        !.severity = JStr(<<"critical">>),
                        !.reported_by = JStr(<<" ", "r">>),
                        !.tags = JList(<<"t">>)]

ValidPayloads == {P1, P2}

InvalidPayloads ==
    { EmptyObject,
      [P1 EXCEPT !.title = Absent],
      [P1 EXCEPT !.severity = Absent],
      [P2 EXCEPT !.description = Absent, !.reported_by = Absent],
      [P1 EXCEPT !.title = JStr(<<" ">>)],
      [P1 EXCEPT !.title = JNum],
      [P2 EXCEPT !.description = JStr(<<>>)],
      [P1 EXCEPT !.reported_by = JStr(<<" ", " ">>)],
      [P1 EXCEPT !.severity = JStr(<<"High">>)],
      [P2 EXCEPT !.severity = JNum],
      [P1 EXCEPT !.severity = JList(<<"low">>)],
      [P1 EXCEPT !.title = Absent, !.severity = JList(<<>>)],
      [P2 EXCEPT !.tags = JStr(<<"t">>)] }

StatusPayload(x) == [EmptyObject EXCEPT !.status = x]

StatusWords == {<<"open">>, <<"in_progress">>, <<"resolved">>, <<"closed">>}

UpdatePayloads ==
    { StatusPayload(JStr(w)) : w \in StatusWords }
    \cup { EmptyObject,
           StatusPayload(JStr(<<"done">>)),
           StatusPayload(JStr(<<"Open">>)),
           StatusPayload(JNum),
           StatusPayload(JList(<<"open">>)) }

\* event["body"] after json.loads: absent, not JSON, an object, or a JSON
\* value that is not an object (the empty array, a number)
NoBody == [kind |-> "none", p |-> EmptyObject]
BadJson == [kind |-> "invalid", p |-> EmptyObject]
JObject(p) == [kind |-> "object", p |-> p]
JArray == [kind |-> "array", p |-> EmptyObject]
JNumber == [kind |-> "number", p |-> EmptyObject]
\* bodies sent with isBase64Encoded: text that b64decode refuses, bytes that
\* are not UTF-8, decoded text that is not JSON, and an encoded JSON object
B64Undecodable == [kind |-> "b64_undecodable", p |-> EmptyObject]
B64NotUtf8 == [kind |-> "b64_not_utf8", p |-> EmptyObject]
B64BadJson == [kind |-> "b64_invalid", p |-> EmptyObject]
B64Object(p) == [kind |-> "b64_object", p |-> p]
Base64Bodies ==
    {B64Undecodable, B64NotUtf8, B64BadJson,
     B64Object(EmptyObject)}

OtherBodies == {NoBody, BadJson, JArray, JNumber} \cup Base64Bodies
CreateBodies == {JObject(p) : p \in ValidPayloads \cup InvalidPayloads} \cup OtherBodies
UpdateBodies == {JObject(p) : p \in UpdatePayloads} \cup OtherBodies
\* bodies sent along with a request whose method the handler rejects
AnyBodies == {NoBody, JObject([P1 EXCEPT !.status = JStr(<<"resolved">>)])}

\* (event or {}).get("httpMethod"): "none" is an event without the key, "null"
\* is a call whose event is None; both read as no method
Methods == {"GET", "POST", "PATCH", "PUT", "DELETE", "OPTIONS", "none", "null"}

\* ---------------------------------------------------------- validation
required_fields == <<"title", "description", "severity", "reported_by">>
allowed_severity == {<<"low">>, <<"medium">>, <<"high">>, <<"critical">>}
allowed_status == {<<"open">>, <<"in_progress">>, <<"resolved">>, <<"closed">>}

Field(p, f) ==
    CASE f = "title" -> p.title
      [] f = "description" -> p.description
      [] f = "severity" -> p.severity
      [] f = "reported_by" -> p.reported_by
      [] f = "tags" -> p.tags
      [] OTHER -> p.status

\* `f in payload`
Has(p, f) == Field(p, f).k # "absent"

FirstMissing(p) ==
    LET m == SelectSeq(required_fields, LAMBDA f : ~Has(p, f))
    IN  IF m = <<>> THEN m ELSE <<Head(m)>>

\* [f for f in required_fields if f not in payload]
Missing(p) == SelectSeq(required_fields, LAMBDA f : ~Has(p, f))

NotAString(x) == ~IsStr(x)

\* not isinstance(x, str) or not x.strip()
BlankText(x) == ~IsStr(x) \/ Strip(x.v) = <<>>

Valid == [res |-> "ok", error |-> "", message |-> <<>>]
Invalid(msg) == [res |-> "invalid", error |-> "ValidationError", message |-> msg]
Raises == [res |-> "raise", error |-> "TypeError", message |-> <<>>]

\* create_incident._validate_payload(json.loads(body))
ValidateCreate(b) ==
    CASE b.kind = "number" -> Raises
      [] b.kind = "array" -> Invalid(<<"Missing fields">> \o required_fields)
      [] OTHER ->
        LET p == b.p IN
        IF Missing(p) # <<>> THEN Invalid(<<"Missing fields">> \o Missing(p))
        ELSE IF BlankText(p.title) THEN Invalid(<<"title must be a non-empty string">>)
        ELSE IF BlankText(p.description)
            THEN Invalid(<<"description must be a non-empty string">>)
        ELSE IF BlankText(p.reported_by)
            THEN Invalid(<<"reported_by must be a non-empty string">>)
        ELSE IF ~Hashable(p.severity) THEN Raises
        ELSE IF ~(IsStr(p.severity) /\ p.severity.v \in allowed_severity)
            THEN Invalid(<<"severity must be one of">>)
        ELSE IF Has(p, "tags") /\ p.tags.k # "list"
            THEN Invalid(<<"tags must be a list of strings">>)
        ELSE Valid

\* update_incident._validate_payload(json.loads(body))
ValidateUpdate(b) ==
    CASE b.kind = "number" -> Raises
      [] b.kind = "array" -> Invalid(<<"status is required">>)
      [] OTHER ->
        LET p == b.p IN
        IF ~Has(p, "status") THEN Invalid(<<"status is required">>)
        ELSE IF ~Hashable(p.status) THEN Raises
        ELSE IF ~(IsStr(p.status) /\ p.status.v \in allowed_status)
            THEN Invalid(<<"status must be one of">>)
        ELSE Valid

ParsePlainOnly(b) ==
    CASE b.kind = "none" -> <<"Request body is required">>
      [] b.kind = "invalid" -> <<"Request body must be valid JSON">>
      [] OTHER -> <<>>

\* shared.utils.parse_json_body: the message of the ValueError it raises, or
\* <<>>. b64decode raises binascii.Error and bytes.decode raises
\* UnicodeDecodeError outside the function's own try; both are ValueErrors and
\* reach the handler's `except ValueError` with their own message.
ParseError(b) ==
    CASE b.kind = "none" -> <<"Request body is required">>
      [] b.kind = "b64_undecodable" -> <<"Incorrect padding">>
      [] b.kind = "b64_not_utf8" -> <<"'utf-8' codec can't decode">>
      [] b.kind \in {"invalid", "b64_invalid"} -> <<"Request body must be valid JSON">>
      [] OTHER -> <<>>

\* ------------------------------------------------------------- responses
Unhandled == 0      \* the handler raised: no response of its own

OutEmpty ==
    [kind |-> "empty", error |-> "", message |-> <<>>, detail |-> FALSE,
     item |-> <<>>, items |-> <<>>, incident_id |-> NoId, status |-> "",
     created_at |-> 0, warning |-> FALSE]

ErrorOut(e, m) == [OutEmpty EXCEPT !.kind = "error", !.error = e, !.message = m]
DetailOut(m) == [ErrorOut("InternalServerError", m) EXCEPT !.detail = TRUE]
ItemOut(item) == [OutEmpty EXCEPT !.kind = "item", !.item = <<item>>]
ItemsOut(items) == [OutEmpty EXCEPT !.kind = "items", !.items = items]
CreatedOut(id, t) ==
    [OutEmpty EXCEPT !.kind = "created", !.incident_id = id, !.status = "created",
                     !.created_at = t]
WarningOut(id, t) == [CreatedOut(id, t) EXCEPT !.warning = TRUE]
HealthOut == [OutEmpty EXCEPT !.kind = "health", !.status = "ok"]

\* shared.utils.build_response: a missing body becomes the empty object
build_response(code, body) ==
    [code |-> code, out |-> IF body = <<>> THEN OutEmpty ELSE body[1]]

Raised == [code |-> Unhandled, out |-> [OutEmpty EXCEPT !.kind = "exception"]]

WrongMethodIsBadRequest(m) == build_response(400, <<ErrorOut("BadRequest", m)>>)

MethodNotAllowed(m) == build_response(405, <<ErrorOut("MethodNotAllowed", m)>>)
MissingId ==
    build_response(400, <<ErrorOut("BadRequest", <<"Path parameter 'id' is required">>)>>)
NotFound == build_response(404, <<ErrorOut("NotFound", <<"Incident not found">>)>>)

\* ------------------------------------------------------------ the store
RECURSIVE SortedKeys(_)
SortedKeys(S) ==
    IF S = {} THEN <<>>
    ELSE LET m == CHOOSE x \in S : \A y \in S : x <= y
         IN  <<m>> \o SortedKeys(S \ {m})

PutDrops(st, item) == [err |-> "", store |-> st]

PutOverwrites(st, item) ==
    [err |-> "",
     store |-> [i \in DOMAIN st \cup {item.incident_id} |->
                   IF i = item.incident_id THEN item ELSE st[i]]]

\* shared.dynamodb.put_incident_item: put_item under attribute_not_exists
put_incident_item(st, item) ==
    IF item.incident_id \in DOMAIN st
    THEN [err |-> "ConditionalCheckFailedException", store |-> st]
    ELSE [err |-> "",
          store |-> [i \in DOMAIN st \cup {item.incident_id} |->
                        IF i = item.incident_id THEN item ELSE st[i]]]

\* shared.dynamodb.get_incident_item: response.get("Item")
get_incident_item(st, id) == IF id \in DOMAIN st THEN <<st[id]>> ELSE <<>>

UpdateUpserts(st, id, status, t) ==
    LET new == IF id \in DOMAIN st
               THEN [st[id] EXCEPT !.status = status, !.updated_at = <<t>>]
               ELSE [incident_id |-> id, title |-> <<>>, description |-> <<>>,
                     severity |-> <<>>, reported_by |-> <<>>, created_at |-> 0,
                     status |-> status, tags |-> <<>>, updated_at |-> <<t>>]
    IN  [err |-> "",
         store |-> [i \in DOMAIN st \cup {id} |-> IF i = id THEN new ELSE st[i]],
         attrs |-> <<new>>]

UpdateStatusOnly(st, id, status, t) ==
    IF id \notin DOMAIN st
    THEN [err |-> "ConditionalCheckFailedException", store |-> st, attrs |-> <<>>]
    ELSE LET new == [st[id] EXCEPT !.status = status]
         IN  [err |-> "", store |-> [st EXCEPT ![id] = new], attrs |-> <<new>>]

UpdateTouchesCreatedAt(st, id, status, t) ==
    IF id \notin DOMAIN st
    THEN [err |-> "ConditionalCheckFailedException", store |-> st, attrs |-> <<>>]
    ELSE LET new == [st[id] EXCEPT !.status = status, !.updated_at = <<t>>,
                                   !.created_at = t]
         IN  [err |-> "", store |-> [st EXCEPT ![id] = new], attrs |-> <<new>>]

UpdateKeepsClosed(st, id, status, t) ==
    IF id \notin DOMAIN st \/ st[id].status = <<"closed">>
    THEN [err |-> "ConditionalCheckFailedException", store |-> st, attrs |-> <<>>]
    ELSE LET new == [st[id] EXCEPT !.status = status, !.updated_at = <<t>>]
         IN  [err |-> "", store |-> [st EXCEPT ![id] = new], attrs |-> <<new>>]

\* shared.dynamodb.update_incident_status: update_item under attribute_exists,
\* ReturnValues ALL_NEW
update_incident_status(st, id, status, t) ==
    IF id \notin DOMAIN st
    THEN [err |-> "ConditionalCheckFailedException", store |-> st, attrs |-> <<>>]
    ELSE LET new == [st[id] EXCEPT !.status = status, !.updated_at = <<t>>]
         IN  [err |-> "", store |-> [st EXCEPT ![id] = new], attrs |-> <<new>>]

\* One table.scan call resumed after key `cursor`: the store serves the next
\* n records in key order and names the last one served when it may have more.
scan_page(st, cursor, n, more) ==
    LET keys == SortedKeys({i \in DOMAIN st : i > cursor})
        page == SubSeq(keys, 1, n)
    IN  [items |-> [j \in 1..Len(page) |-> st[page[j]]],
         last |-> IF n < Len(keys) \/ (more /\ n > 0) THEN page[n] ELSE NoId]

\* the record create_incident builds from a validated payload
NewItem(id, p, t) ==
    [incident_id |-> id,
     title |-> Strip(p.title.v),
     description |-> Strip(p.description.v),
     severity |-> p.severity.v,
     reported_by |-> Strip(p.reported_by.v),
     created_at |-> t,
     status |-> <<"open">>,
     tags |-> IF Has(p, "tags") THEN <<p.tags.v>> ELSE <<>>,
     updated_at |-> <<>>]

NotificationOfDraft(item) ==
    [incident_id |-> item.incident_id, severity |-> item.severity,
     title |-> <<>>, created_at |-> item.created_at, status |-> item.status]

\* notification_payload of create_incident
Notification(item) ==
    [incident_id |-> item.incident_id, severity |-> item.severity,
     title |-> item.title, created_at |-> item.created_at, status |-> item.status]

\* ------------------------------------------------------------------ state
VARIABLES
    store,          \* the incidents table: incident_id -> record
    published,      \* messages accepted by the notification topic, in order
    now,            \* the clock datetime.now reads
    env,            \* which of the two environment variables are set
    inflight,       \* per admitted request: where it stands between collaborator calls
    resp,           \* <<>> or the response a handler has just returned
    started,        \* requests admitted past validation so far
    hist            \* what clients have been told: acknowledged creates and updates

vars == <<store, published, now, env, inflight, resp, started, hist>>

Idle ==
    [pc |-> "idle", op |-> "", method |-> "", body |-> NoBody, id |-> NoId,
     item |-> <<>>, status |-> <<>>, at |-> 0, after |-> FALSE,
     cursor |-> NoId, items |-> <<>>, snap |-> {}, ops |-> 0, pubs |-> 0,
     fault |-> "none", pfault |-> "none"]

\* ops and pubs count the store and topic calls the request has made; fault
\* and pfault are what its last store and topic call raised
Request(op, m, pid, b) ==
    [Idle EXCEPT !.op = op, !.method = m, !.id = pid, !.body = b]

Init ==
    /\ store = <<>>
    /\ published = <<>>
    /\ now = 0
    /\ env \in [table : BOOLEAN, topic : BOOLEAN]
    /\ inflight = [s \in Slots |-> Idle]
    /\ resp = <<>>
    /\ started = 0
    /\ hist = [ack |-> [i \in Ids |-> <<>>], upd |-> [i \in Ids |-> <<>>]]

\* The handler running request q returns r; `pre` is the table as it was
\* before the handler's last step.
Reply(q, r) == resp' = <<[req |-> q, code |-> r.code, out |-> r.out, pre |-> store]>>

Free(s) == inflight' = [inflight EXCEPT ![s] = Idle]

\* What a call through get_incidents_table can raise: RuntimeError when
\* INCIDENTS_TABLE_NAME is unset; otherwise the call is served ("none"), or
\* boto3 raises a ClientError or an exception that is not a ClientError.
StoreFaults == IF env.table THEN {"none", "ClientError", "BotoCoreError"} ELSE {"RuntimeError"}

\* What publish_incident_created_message can raise
PublishFaults == IF env.topic THEN {"none", "ClientError"} ELSE {"RuntimeError"}

StoreError(f, m) == IF f = "ClientError" THEN build_response(500, <<DetailOut(m)>>) ELSE Raised

\* --------------------------------------------------------------- create
\* create_incident.lambda_handler up to validation: its response, or <<>>
\* when the request goes on to the store
CreateEarly(m, b) ==
    IF m = "OPTIONS" THEN <<build_response(204, <<>>)>>
    ELSE IF m # "POST" THEN <<MethodNotAllowed(<<"Only POST is supported">>)>>
    ELSE IF ParseError(b) # <<>>
        THEN <<build_response(400, <<ErrorOut("BadRequest", ParseError(b))>>)>>
    ELSE LET v == ValidateCreate(b) IN
         CASE v.res = "raise" -> <<Raised>>
           [] v.res = "invalid" -> <<build_response(400, <<ErrorOut(v.error, v.message)>>)>>
           [] OTHER -> <<>>

CreateInputs ==
    ({"POST"} \X CreateBodies) \cup ((Methods \ {"POST"}) \X AnyBodies)

CreateReject ==
    /\ resp = <<>>
    /\ \E in \in CreateInputs :
         /\ CreateEarly(in[1], in[2]) # <<>>
         /\ Reply(Request("create", in[1], NoId, in[2]), CreateEarly(in[1], in[2])[1])
    /\ UNCHANGED <<store, published, now, env, inflight, started, hist>>

\* uuid4 and the clock read, after a request passed validation
CreateAdmit ==
    /\ resp = <<>>
    /\ started < MaxReqs
    /\ \E p \in ValidPayloads \cup InvalidPayloads, id \in Ids :
         /\ CreateEarly("POST", JObject(p)) = <<>>
         /\ inflight' = [inflight EXCEPT ![started + 1] =
                [Request("create", "POST", id, JObject(p)) EXCEPT
                    !.pc = "put", !.item = <<NewItem(id, p, now)>>, !.at = now]]
    /\ started' = started + 1
    /\ UNCHANGED <<store, published, now, env, resp, hist>>

\* try: put_incident_item(item) except ClientError
CreatePut(s) ==
    /\ resp = <<>>
    /\ inflight[s].pc = "put"
    /\ \E f \in StoreFaults :
         LET q == [inflight[s] EXCEPT !.ops = @ + 1, !.fault = f]
             r == put_incident_item(store, q.item[1])
         IN  IF f = "none" /\ r.err = ""
             THEN /\ store' = r.store
                  /\ inflight' = [inflight EXCEPT ![s] = [q EXCEPT !.pc = "publish"]]
                  /\ UNCHANGED resp
             ELSE /\ Reply(q, StoreError(IF f = "none" THEN "ClientError" ELSE f,
                                         <<"Failed to create incident (DynamoDB)">>))
                  /\ Free(s)
                  /\ UNCHANGED store
    /\ UNCHANGED <<published, now, env, started, hist>>

PublishFailureIsError(id, t) ==
    build_response(500, <<DetailOut(<<"Failed to publish notification">>)>>)

\* the response of the `except Exception` around the publish
PublishFailureResponse(id, t) == build_response(202, <<WarningOut(id, t)>>)

\* try: publish_incident_created_message(...) except Exception, then the 201
CreatePublish(s) ==
    /\ resp = <<>>
    /\ inflight[s].pc = "publish"
    /\ \E f \in PublishFaults :
         LET q == [inflight[s] EXCEPT !.pubs = @ + 1, !.pfault = f]
             item == q.item[1]
             r == IF f = "none"
                  THEN build_response(201, <<CreatedOut(q.id, q.at)>>)
                  ELSE PublishFailureResponse(q.id, q.at)
         IN  /\ published' = IF f = "none"
                             THEN Append(published, Notification(item))
                             ELSE published
             /\ Reply(q, r)
             /\ hist' = IF r.code \in {201, 202}
                        THEN [hist EXCEPT !.ack[q.id] =
                                 Append(@, [p |-> q.body.p, code |-> r.code, at |-> q.at])]
                        ELSE hist
    /\ Free(s)
    /\ UNCHANGED <<store, now, env, started>>

\* ---------------------------------------------------------- update status
\* update_incident.lambda_handler up to validation
UpdateEarly(m, pid, b) ==
    IF m = "OPTIONS" THEN <<build_response(204, <<>>)>>
    ELSE IF m \notin {"PATCH", "PUT"}
        THEN <<MethodNotAllowed(<<"Only PATCH or PUT is supported">>)>>
    ELSE IF pid = NoId THEN <<MissingId>>
    ELSE IF ParseError(b) # <<>>
        THEN <<build_response(400, <<ErrorOut("BadRequest", ParseError(b))>>)>>
    ELSE LET v == ValidateUpdate(b) IN
         CASE v.res = "raise" -> <<Raised>>
           [] v.res = "invalid" -> <<build_response(400, <<ErrorOut(v.error, v.message)>>)>>
           [] OTHER -> <<>>

PathIds == Ids \cup {NoId}

UpdateInputs ==
    ({"PATCH", "PUT"} \X Ids \X UpdateBodies)
    \cup (Methods \X PathIds \X AnyBodies)
    \cup ({"PATCH", "DELETE"} \X {NoId} \X {BadJson, JObject(StatusPayload(JStr(<<"done">>)))})

UpdateReject ==
    /\ resp = <<>>
    /\ \E in \in UpdateInputs :
         /\ UpdateEarly(in[1], in[2], in[3]) # <<>>
         /\ Reply(Request("update", in[1], in[2], in[3]), UpdateEarly(in[1], in[2], in[3])[1])
    /\ UNCHANGED <<store, published, now, env, inflight, started, hist>>

\* new_status and the clock read, after a request passed validation (the
\* handler does not look at the method again: it is not kept)
UpdateAdmit ==
    /\ resp = <<>>
    /\ started < MaxReqs
    /\ \E m \in {"PATCH", "PUT"}, id \in Ids, p \in UpdatePayloads :
         LET b == JObject(p) IN
         /\ UpdateEarly(m, id, b) = <<>>
         /\ inflight' = [inflight EXCEPT ![started + 1] =
                [Request("update", "", id, b) EXCEPT
                    !.pc = "update", !.status = b.p.status.v, !.at = now,
                    !.after = (hist.ack[id] # <<>>)]]
    /\ started' = started + 1
    /\ UNCHANGED <<store, published, now, env, resp, hist>>

\* try: update_incident_status(...) except ClientError
UpdateWrite(s) ==
    /\ resp = <<>>
    /\ inflight[s].pc = "update"
    /\ \E f \in StoreFaults :
         LET q == [inflight[s] EXCEPT !.ops = @ + 1, !.fault = f]
             r == update_incident_status(store, q.id, q.status, q.at)
         IN  IF f # "none"
             THEN /\ Reply(q, StoreError(f, <<"Failed to update incident status">>))
                  /\ UNCHANGED <<store, hist>>
             ELSE IF r.err = "ConditionalCheckFailedException"
             THEN /\ Reply(q, NotFound)
                  /\ store' = r.store
                  /\ UNCHANGED hist
             ELSE /\ Reply(q, build_response(200, <<ItemOut(r.attrs[1])>>))
                  /\ store' = r.store
                  /\ hist' = [hist EXCEPT !.upd[q.id] =
                                 <<[status |-> q.status, after |-> q.after]>>]
    /\ Free(s)
    /\ UNCHANGED <<published, now, env, started>>

\* --------------------------------------------------------------------- get
\* get_incident.lambda_handler up to the store call
GetEarly(m, pid) ==
    IF m = "OPTIONS" THEN <<build_response(204, <<>>)>>
    ELSE IF m # "GET" THEN <<MethodNotAllowed(<<"Only GET is supported">>)>>
    ELSE IF pid = NoId THEN <<MissingId>>
    ELSE <<>>

\* the rest of get_incident.lambda_handler, given what get_incident_item did
GetResult(f, found) ==
    IF f # "none" THEN StoreError(f, <<"Failed to fetch incident">>)
    ELSE IF found = <<>> THEN NotFound
    ELSE build_response(200, <<ItemOut(found[1])>>)

GetReject ==
    /\ resp = <<>>
    /\ \E m \in Methods, pid \in PathIds :
         /\ GetEarly(m, pid) # <<>>
         /\ Reply(Request("get", m, pid, NoBody), GetEarly(m, pid)[1])
    /\ UNCHANGED <<store, published, now, env, inflight, started, hist>>

\* try: get_incident_item(incident_id) except ClientError, and the response
GetFetch ==
    /\ resp = <<>>
    /\ \E pid \in Ids, f \in StoreFaults :
         /\ GetEarly("GET", pid) = <<>>
         /\ Reply([Request("get", "GET", pid, NoBody) EXCEPT !.ops = 1, !.fault = f],
                  GetResult(f, get_incident_item(store, pid)))
    /\ UNCHANGED <<store, published, now, env, inflight, started, hist>>

\* -------------------------------------------------------------------- list
\* list_incidents.lambda_handler up to the store call
ListEarly(m) ==
    IF m = "OPTIONS" THEN <<build_response(204, <<>>)>>
    ELSE IF m # "GET" THEN <<MethodNotAllowed(<<"Only GET is supported">>)>>
    ELSE <<>>

ListReject ==
    /\ resp = <<>>
    /\ \E m \in Methods :
         /\ ListEarly(m) # <<>>
         /\ Reply(Request("list", m, NoId, NoBody), ListEarly(m)[1])
    /\ UNCHANGED <<store, published, now, env, inflight, started, hist>>

\* scan_incidents starts: items = [], scan_kwargs = {}
ListAdmit ==
    /\ resp = <<>>
    /\ started < MaxReqs
    /\ ListEarly("GET") = <<>>
    /\ inflight' = [inflight EXCEPT ![started + 1] =
           [Request("list", "GET", NoId, NoBody) EXCEPT
               !.pc = "scan", !.snap = DOMAIN store]]
    /\ started' = started + 1
    /\ UNCHANGED <<store, published, now, env, resp, hist>>

ScanRestarts(cursor, last) == NoId

\* scan_kwargs["ExclusiveStartKey"] = last_key
NextCursor(cursor, last) == last

\* one turn of the while loop of scan_incidents, and the return when
\* LastEvaluatedKey is missing
ListScan(s) ==
    /\ resp = <<>>
    /\ inflight[s].pc = "scan"
    /\ \E f \in StoreFaults :
         LET q == [inflight[s] EXCEPT !.ops = @ + 1, !.fault = f]
             left == Cardinality({i \in DOMAIN store : i > q.cursor})
         IN  IF f # "none"
             THEN /\ Reply(q, StoreError(f, <<"Failed to list incidents">>))
                  /\ Free(s)
             ELSE \E n \in 0..left, more \in BOOLEAN :
                    /\ n > 0 \/ left = 0
                    /\ LET page == scan_page(store, q.cursor, n, more)
                           items == q.items \o page.items
                       IN  IF page.last = NoId
                           THEN /\ Reply([q EXCEPT !.items = items],
                                         build_response(200, <<ItemsOut(items)>>))
                                /\ Free(s)
                           ELSE /\ inflight' = [inflight EXCEPT ![s] =
                                       [q EXCEPT !.items = items,
                                                 !.cursor = NextCursor(q.cursor, page.last)]]
                                /\ UNCHANGED resp
    /\ UNCHANGED <<store, published, now, env, started, hist>>

\* ------------------------------------------------------------------ health
\* health_check.lambda_handler: the same response whatever the event
HealthResult(m) == [code |-> 200, out |-> HealthOut]

HealthRequest ==
    /\ resp = <<>>
    /\ \E m \in Methods : Reply(Request("health", m, NoId, NoBody), HealthResult(m))
    /\ UNCHANGED <<store, published, now, env, inflight, started, hist>>

\* ------------------------------------------------------------- environment
Tick ==
    /\ resp = <<>>
    /\ now < MaxClock
    /\ now' = now + 1
    /\ UNCHANGED <<store, published, env, inflight, resp, started, hist>>

\* the caller receives the response
Deliver ==
    /\ resp # <<>>
    /\ resp' = <<>>
    /\ UNCHANGED <<store, published, now, env, inflight, started, hist>>

\* no request is between two collaborator calls
Quiet == \A s \in Slots : inflight[s].pc = "idle"

InFlight == {s \in Slots : inflight[s].pc # "idle"}

\* a request arrives and is answered before its first collaborator call
Rejected ==
    \/ CreateReject
    \/ UpdateReject
    \/ GetReject
    \/ ListReject
    \/ HealthRequest

\* a request arrives and goes on to the store
Admitted ==
    \/ CreateAdmit
    \/ UpdateAdmit
    \/ ListAdmit
    \/ GetFetch

\* an admitted request makes its next collaborator call
Step ==
    \/ \E s \in Slots : CreatePut(s)
    \/ \E s \in Slots : CreatePublish(s)
    \/ \E s \in Slots : UpdateWrite(s)
    \/ \E s \in Slots : ListScan(s)

\* Requests served one at a time, with every kind of input.
Next ==
    \/ Quiet /\ Rejected
    \/ Quiet /\ Admitted
    \/ Step
    \/ Tick
    \/ Deliver

Spec == Init /\ [][Next]_vars

\* Well-formed requests served in parallel, at most MaxConc at a time.
NextConc ==
    \/ Cardinality(InFlight) < MaxConc /\ Admitted
    \/ Step
    \/ Tick
    \/ Deliver

SpecConc == Init /\ [][NextConc]_vars

TypeOK ==
    /\ DOMAIN store \subseteq Ids
    /\ now \in 0..MaxClock
    /\ started \in 0..MaxReqs
    /\ Len(resp) <= 1

\* ================================================================ claims
Answered(op) == resp # <<>> /\ resp[1].req.op = op
R == resp[1]
Acked(id) == hist.ack[id] # <<>>
Updated(id) == hist.upd[id] # <<>>
Open == <<"open">>

\* how many records of a list carry the id
Occurrences(items, id) == Cardinality({j \in 1..Len(items) : items[j].incident_id = id})

C3_UpdateMissingIs404 ==
    (Answered("update") /\ R.req.ops = 1 /\ R.req.fault = "none"
        /\ R.req.id \notin DOMAIN R.pre) =>
        /\ R.code = 404
        /\ R.out.error = "NotFound"
        /\ store = R.pre

\* an update of an id that names no record answers 404 while the table holds
\* another record
C3_Witness ==
    /\ Answered("update")
    /\ R.code = 404
    /\ DOMAIN store # {}
    /\ R.req.id \notin DOMAIN store

\* C4: an update-status (PATCH or PUT, with a path id and a JSON object body)
\* whose status is absent or is none of the four words answers 400, makes no
\* store call and leaves the table as it was.
C4_InvalidStatusIs400 ==
    (Answered("update") /\ R.req.method \in {"PATCH", "PUT"} /\ R.req.id # NoId
        /\ R.req.body.kind = "object"
        /\ ~(R.req.body.p.status.k = "str"
             /\ R.req.body.p.status.v \in
                  {<<"open">>, <<"in_progress">>, <<"resolved">>, <<"closed">>})) =>
        /\ R.code = 400
        /\ R.req.ops = 0
        /\ store = R.pre

RequiredNames == {"title", "description", "severity", "reported_by"}
LacksSome(p) == \E f \in RequiredNames : Field(p, f).k = "absent"

\* C5: a POST create whose JSON object lacks a required field answers 400
\* ValidationError with a message that names the missing required fields and
\* no other; it calls neither the store nor the topic.
C5_MissingFieldsRejected ==
    (Answered("create") /\ R.req.method = "POST" /\ R.req.body.kind = "object"
        /\ LacksSome(R.req.body.p)) =>
        /\ R.code = 400
        /\ R.out.error = "ValidationError"
        /\ R.out.message # <<>>
        /\ Head(R.out.message) = "Missing fields"
        /\ {Tail(R.out.message)[j] : j \in 1..(Len(R.out.message) - 1)}
             = {f \in RequiredNames : Field(R.req.body.p, f).k = "absent"}
        /\ Len(R.out.message) - 1
             = Cardinality({f \in RequiredNames : Field(R.req.body.p, f).k = "absent"})
        /\ R.req.ops = 0
        /\ R.req.pubs = 0
        /\ store = R.pre

\* a create that lacks two required fields is rejected while the table holds
\* a record
C5_Witness ==
    /\ Answered("create")
    /\ R.code = 400
    /\ Len(R.out.message) = 3
    /\ DOMAIN store # {}

\* C6: a POST create whose severity is anything but low, medium, high or
\* critical answers 400 and the table gains no record.
C6_BadSeverityIs400 ==
    (Answered("create") /\ R.req.method = "POST" /\ R.req.body.kind = "object"
        /\ ~(R.req.body.p.severity.k = "str"
             /\ R.req.body.p.severity.v \in
                  {<<"low">>, <<"medium">>, <<"high">>, <<"critical">>})) =>
        /\ R.code = 400
        /\ R.req.ops = 0
        /\ store = R.pre

\* C7: when the last update-status that succeeded on a record set "resolved"
\* and was requested after the record's create had answered, a get of that
\* record the store serves answers 200 with status "resolved" and an
\* updated_at that is present and not earlier than created_at.
C7_ResolvedRoundTrip ==
    \A id \in Ids :
        (Answered("get") /\ R.req.id = id /\ R.req.ops = 1 /\ R.req.fault = "none"
            /\ Acked(id) /\ Updated(id)
            /\ hist.upd[id][1].status = <<"resolved">> /\ hist.upd[id][1].after) =>
            /\ R.code = 200
            /\ R.out.item # <<>>
            /\ R.out.item[1].status = <<"resolved">>
            /\ R.out.item[1].updated_at # <<>>
            /\ R.out.item[1].updated_at[1] >= R.out.item[1].created_at

\* create, then (after the clock moved) update to resolved, then get
C7_Witness ==
    /\ Answered("get")
    /\ R.code = 200
    /\ Acked(R.req.id)
    /\ Updated(R.req.id)
    /\ hist.upd[R.req.id][1].status = <<"resolved">>
    /\ hist.upd[R.req.id][1].after
    /\ R.out.item[1].updated_at # <<>>
    /\ R.out.item[1].updated_at[1] > R.out.item[1].created_at

Trimmed(x, y) ==
    \E i \in 1..(Len(x) + 1), j \in 0..Len(x) :
        /\ y = SubSeq(x, i, j)
        /\ \A k \in 1..Len(x) : (k < i \/ k > j) => x[k] = " "
        /\ y # <<>> => (y[1] # " " /\ y[Len(y)] # " ")

FreshGet(id) ==
    /\ Answered("get")
    /\ R.req.id = id
    /\ R.code = 200
    /\ Acked(id)
    /\ ~Updated(id)

C10_OptionsIs204 ==
    (resp # <<>> /\ R.req.method = "OPTIONS") =>
        /\ R.code = 204
        /\ R.out = OutEmpty
        /\ R.req.ops = 0
        /\ R.req.pubs = 0
        /\ store = R.pre

\* the method each operation serves
Expected(op) ==
    CASE op = "create" -> {"POST"}
      [] op = "update" -> {"PATCH", "PUT"}
      [] OTHER -> {"GET"}

CrudOps == {"create", "get", "list", "update"}

\* the request did nothing but compute its response
Untouched == R.req.ops = 0 /\ R.req.pubs = 0 /\ store = R.pre

\* C11: a request to create, get, list or update whose method is neither
\* OPTIONS nor the one the operation serves (a missing method and a null event
\* included) is answered 405 MethodNotAllowed, whatever its path id and body,
\* after no store call and no publish, and the table is as it was.
C11_WrongMethodIs405 ==
    (resp # <<>> /\ R.req.op \in CrudOps
        /\ R.req.method \in Methods \ (Expected(R.req.op) \cup {"OPTIONS"})) =>
        /\ R.code = 405
        /\ R.out.error = "MethodNotAllowed"
        /\ Untouched

\* an update sent with a null event while the table holds a record
C11_Witness ==
    /\ Answered("update") /\ R.req.method = "null" /\ R.code = 405
    /\ DOMAIN store # {}

\* C12: in create, get, list and update every failed store call is answered
\* 500 InternalServerError with a detail, and no request that reached the store
\* ends in an unhandled exception; the one other outcome of a refused store
\* call is the 404 of an update whose condition failed.
C12_StoreFailureIs500 ==
    (resp # <<>> /\ R.req.op \in CrudOps /\ R.req.ops >= 1) =>
        /\ R.code # Unhandled
        /\ R.req.fault # "none" =>
               R.code = 500 /\ R.out.error = "InternalServerError" /\ R.out.detail

\* the record as create wrote it: status and updated_at are update's to change
Created(rec) == [rec EXCEPT !.status = Open, !.updated_at = <<>>]

\* creates of the id whose conditional put has succeeded
Winners(id) ==
    Len(hist.ack[id])
    + Cardinality({s \in Slots : inflight[s].pc = "publish" /\ inflight[s].id = id})

\* C13: a create whose id is already in the table is refused and leaves the
\* table as it was; of the creates that drew the same id at most one gets its
\* put through, and the table holds that create's record, whatever the other
\* creates carried and however the requests interleave.
C13_CreateNeverOverwrites ==
    /\ (Answered("create") /\ R.req.ops = 1 /\ R.req.pubs = 0
            /\ R.req.id \in DOMAIN R.pre) =>
           store = R.pre /\ R.code \notin {201, 202}
    /\ \A id \in Ids :
           /\ Winners(id) <= 1
           /\ Acked(id) =>
                  /\ id \in DOMAIN store
                  /\ Created(store[id]) = NewItem(id, hist.ack[id][1].p, hist.ack[id][1].at)
    /\ \A s \in Slots :
           inflight[s].pc = "publish" =>
               /\ inflight[s].id \in DOMAIN store
               /\ Created(store[inflight[s].id]) = inflight[s].item[1]

\* a create is refused because another create, admitted while it was in
\* flight and carrying another payload, wrote the same id first
C13_Witness ==
    /\ Answered("create") /\ R.req.ops = 1 /\ R.req.pubs = 0 /\ R.req.fault = "none"
    /\ R.code = 500
    /\ R.req.id \in DOMAIN store
    /\ store[R.req.id].title # R.req.item[1].title
    /\ \E s \in Slots : inflight[s].pc = "publish" /\ inflight[s].id = R.req.id

\* C14: a create refused because its id is already in the table is answered
\* with an outcome of its own, not with the 500 InternalServerError that any
\* other store failure gets.
C14_DuplicateIsDistinct ==
    (Answered("create") /\ R.req.ops = 1 /\ R.req.pubs = 0 /\ R.req.fault = "none") =>
        ~(R.code = 500 /\ R.out.error = "InternalServerError")

\* bodies that hold no JSON text: absent, not JSON, or base64 that does not
\* decode to JSON text
Unparseable ==
    {"none", "invalid", "b64_undecodable", "b64_not_utf8", "b64_invalid"}

\* C15: a create or an update sent with its method (and, for update, with a
\* path id) whose body is absent or is not JSON, plain or base64, is answered
\* 400 BadRequest: the handler returns a response, and it has called neither
\* the store nor the topic.
C15_UnparseableBodyIs400 ==
    (resp # <<>> /\ R.req.op \in {"create", "update"}
        /\ R.req.method \in Expected(R.req.op)
        /\ (R.req.op = "update" => R.req.id # NoId)
        /\ R.req.body.kind \in Unparseable) =>
        /\ R.code = 400
        /\ R.out.error = "BadRequest"
        /\ Untouched

\* an update of a stored record whose base64 body is not UTF-8
C15_Witness ==
    /\ Answered("update") /\ R.req.method = "PATCH" /\ R.req.id \in DOMAIN store
    /\ R.req.body = B64NotUtf8
    /\ R.code = 400

\* C16: when the table name or the topic ARN is not configured the service
\* does not serve: no create writes a record, and no request is answered with
\* the 202 warning or ends in a failure of its own because of the missing
\* setting.
C16_MissingConfigServesNothing ==
    (~env.table \/ ~env.topic) =>
        /\ DOMAIN store = {}
        /\ resp # <<>> =>
               /\ R.code # 202
               /\ R.req.fault # "RuntimeError"
               /\ R.req.pfault # "RuntimeError"

\* C17: an update answered 200 has changed nothing in the table but the status
\* and updated_at of its record: the record's other seven fields and every
\* other record are as before, and no record was added or removed; and the
\* created_at of a stored record is the time its create read, in every state.
C17_UpdateChangesStatusOnly ==
    /\ (Answered("update") /\ R.code = 200) =>
           /\ R.req.id \in DOMAIN R.pre
           /\ DOMAIN store = DOMAIN R.pre
           /\ \A i \in DOMAIN store \ {R.req.id} : store[i] = R.pre[i]
           /\ store[R.req.id] =
                  [R.pre[R.req.id] EXCEPT !.status = store[R.req.id].status,
                                          !.updated_at = store[R.req.id].updated_at]
    /\ \A id \in DOMAIN store :
           /\ Acked(id) => store[id].created_at = hist.ack[id][1].at
           /\ \A s \in Slots :
                  (inflight[s].pc = "publish" /\ inflight[s].id = id) =>
                      store[id].created_at = inflight[s].at

\* an update, requested after the clock moved on, changes the status of one of
\* two stored records
C17_Witness ==
    /\ Answered("update") /\ R.code = 200
    /\ Cardinality(DOMAIN store) = 2
    /\ store[R.req.id].status # R.pre[R.req.id].status
    /\ store[R.req.id].updated_at # <<store[R.req.id].created_at>>
    /\ store[R.req.id].tags # <<>>

\* C18: however updates of one record interleave, an update answered 200
\* leaves the record's updated_at no earlier than it was before the write, and
\* an update to the status the record already has leaves the status as it was.
C18_UpdatedAtNeverGoesBack ==
    (Answered("update") /\ R.code = 200) =>
        /\ R.pre[R.req.id].updated_at # <<>> =>
               store[R.req.id].updated_at[1] >= R.pre[R.req.id].updated_at[1]
        /\ R.req.status = R.pre[R.req.id].status =>
               store[R.req.id].status = R.pre[R.req.id].status

BadPayload(op, b) ==
    /\ op \in {"create", "update"}
    /\ b.kind \notin Unparseable
    /\ IF op = "create"
       THEN ~(b.kind \in {"object", "b64_object"} /\ b.p \in ValidPayloads)
       ELSE ~(b.kind \in {"object", "b64_object"} /\ IsStr(b.p.status)
                /\ b.p.status.v \in allowed_status)

\* the checks a request fails, each taken by itself
FailedChecks(q, st) ==
    {c \in {"preflight", "method", "path", "parse", "payload", "store"} :
        CASE c = "preflight" -> q.method = "OPTIONS"
          [] c = "method" -> q.method \notin Expected(q.op) \cup {"OPTIONS"}
          [] c = "path" -> q.op \in {"update", "get"} /\ q.id = NoId
          [] c = "parse" -> q.op \in {"create", "update"} /\ q.body.kind \in Unparseable
          [] c = "payload" -> BadPayload(q.op, q.body)
          [] OTHER -> q.op \in {"update", "get"} /\ q.id \notin DOMAIN st}

PathMessage == <<"Path parameter 'id' is required">>

\* C20: a request that fails several checks is answered by the first check it
\* fails, in the order preflight, method, path id, body parse, payload
\* validation, store: 204 for OPTIONS, else 405 for a wrong method, else 400
\* BadRequest for a missing path id, else 400 BadRequest for a body that does
\* not parse, else 400 ValidationError for a payload that is not accepted, all
\* of them before any store call; only a request that passes all of them
\* reaches the store (where a missing record gives 404).
C20_EarliestFailureAnswers ==
    (resp # <<>> /\ R.req.op \in CrudOps /\ R.req.method \in Methods
        /\ Cardinality(FailedChecks(R.req, R.pre)) >= 2) =>
        IF R.req.method = "OPTIONS"
            THEN R.code = 204 /\ Untouched
        ELSE IF R.req.method \notin Expected(R.req.op)
            THEN R.code = 405 /\ R.out.error = "MethodNotAllowed" /\ Untouched
        ELSE IF R.req.op \in {"update", "get"} /\ R.req.id = NoId
            THEN /\ R.code = 400 /\ R.out.error = "BadRequest"
                 /\ R.out.message = PathMessage /\ Untouched
        ELSE IF R.req.op \in {"create", "update"} /\ R.req.body.kind \in Unparseable
            THEN /\ R.code = 400 /\ R.out.error = "BadRequest"
                 /\ R.out.message # PathMessage /\ Untouched
        ELSE IF BadPayload(R.req.op, R.req.body)
            THEN R.code = 400 /\ R.out.error = "ValidationError" /\ Untouched
        ELSE R.req.ops >= 1

\* the message is that of the record: id, severity, title and created_at as
\* stored, status "open"
Announces(msg, rec) ==
    /\ DOMAIN msg = {"incident_id", "severity", "title", "created_at", "status"}
    /\ msg.incident_id = rec.incident_id
    /\ msg.severity = rec.severity
    /\ msg.title = rec.title
    /\ msg.created_at = rec.created_at
    /\ msg.status = Open

\* positions of the messages published for the id
MessagesOf(id) == {j \in 1..Len(published) : published[j].incident_id = id}

\* C21: a create calls the topic at most once, and only after its own put was
\* served and its record is in the table; a create answered 400, 405 or 500,
\* or ended by a failed store call, has not called the topic; and every
\* published message is, field by field, the incident_id, severity, title and
\* created_at of a stored record with status "open", one message per record at
\* most.
C21_PublishAfterWrite ==
    /\ Answered("create") =>
           /\ R.req.pubs <= 1
           /\ R.req.pubs = 1 =>
                  /\ R.req.ops = 1 /\ R.req.fault = "none"
                  /\ R.req.id \in DOMAIN R.pre
                  /\ Created(R.pre[R.req.id]) = R.req.item[1]
                  /\ R.code \in {201, 202}
           /\ (R.code \in {400, 405, 500, Unhandled}) => R.req.pubs = 0
           /\ R.code = 201 =>
                  /\ published # <<>>
                  /\ Announces(published[Len(published)], R.pre[R.req.id])
    /\ \A s \in Slots :
           inflight[s].op = "create" =>
               /\ inflight[s].pubs = 0
               /\ inflight[s].pc = "put" => inflight[s].ops = 0
    /\ \A j \in 1..Len(published) :
           /\ published[j].incident_id \in DOMAIN store
           /\ Announces(published[j], store[published[j].incident_id])
    /\ \A id \in Ids : Cardinality(MessagesOf(id)) <= 1

\* a message is published for a record that an update, let in between the put
\* and the publish, has already resolved
C21_Witness ==
    /\ Answered("create") /\ R.code = 201 /\ R.req.pubs = 1
    /\ store[R.req.id].status = <<"resolved">>
    /\ published[Len(published)].title = <<"a">>
    /\ published[Len(published)].status = Open

\* a non-empty text that neither starts nor ends with whitespace
Tidy(text) == text # <<>> /\ text[1] # " " /\ text[Len(text)] # " "

\* C22: in every state every stored record has one of the four status values
\* and one of the four severities, a title, a description and a reported_by
\* that are non-empty and neither start nor end with whitespace, and an
\* updated_at exactly when an update-status of that record has succeeded.
C22_StoredRecordsWellFormed ==
    \A id \in DOMAIN store :
        /\ store[id].status \in allowed_status
        /\ store[id].severity \in allowed_severity
        /\ Tidy(store[id].title)
        /\ Tidy(store[id].description)
        /\ Tidy(store[id].reported_by)
        /\ (store[id].updated_at # <<>>) <=> Updated(id)

\* two records written from padded texts, one of them updated since
C22_Witness ==
    /\ DOMAIN store = Ids
    /\ \E i, j \in Ids :
           /\ store[i].title = <<"a">> /\ store[i].updated_at # <<>>
           /\ store[i].status = <<"in_progress">>
           /\ store[j].reported_by = <<"r">> /\ store[j].description = <<"d">>
           /\ store[j].title = <<"b">> /\ store[j].updated_at = <<>>

\* the parsed body is not an object, or its severity or status is present and
\* is not a string
Mistyped(b) ==
    \/ b.kind \in {"array", "number"}
    \/ Has(b.p, "severity") /\ ~IsStr(b.p.severity)
    \/ Has(b.p, "status") /\ ~IsStr(b.p.status)

\* C23: a create or an update sent with its method (and, for update, a path
\* id) whose body parses as JSON is always answered with a response, and with
\* 400 when the parsed value is not an object or carries a severity or status
\* that is not a string; validation never ends in an unhandled exception.
C23_ParsedBodyIsAnswered ==
    (resp # <<>> /\ R.req.op \in {"create", "update"}
        /\ R.req.method \in Expected(R.req.op)
        /\ (R.req.op = "update" => R.req.id # NoId)
        /\ R.req.body.kind \notin Unparseable
        /\ R.req.ops = 0) =>
        /\ R.code # Unhandled
        /\ Mistyped(R.req.body) => R.code = 400

====
